---- MODULE Spec2Model ----
(***************************************************************************)
(* Model of the referral settlement engine (src/src/lib.rs) and of the     *)
(* handler that calls it (src/src/api.rs).                                 *)
(*                                                                         *)
(* The store is PostgreSQL at its default isolation (READ COMMITTED).      *)
(* Every call of process_purchase is one transaction; every awaited query  *)
(* of it is one step, so that calls interleave between queries.  A         *)
(* transaction's own writes are kept in its record (ins, cred) until       *)
(* tx.commit(); dropping the sqlx Transaction on an error path (the `?`    *)
(* operator) rolls them back.                                              *)
(***************************************************************************)
EXTENDS Integers, FiniteSets, Sequences, Bags, TLC

\* Number of process_purchase calls a behaviour makes.
MaxCalls == 2

\* lib.rs:16 and lib.rs:18
L1_PERCENTAGE == 10
L2_PERCENTAGE == 5

\* lib.rs:21
PAYMENT_STATUS_CAPTURED == "captured"

Calls == 1..MaxCalls

\* users.id values that may have a row; referrer_id NULL is modelled as None.
Users == {1, 2, 3}
None == 0

PurchaseIds == {"p1", "p2"}
Statuses == {"authorized", "captured", "refunded", "voided"}
Amounts == {0, 19, 1000}
\* The bodies of the requests to create a purchase: a captured purchase of
\* user 2, an authorized one of user 3, and one with a negative amount.
CreatePurchaseRequests ==
    {[user_id |-> 2, amount |-> 1000, status |-> PAYMENT_STATUS_CAPTURED],
     [user_id |-> 3, amount |-> 19, status |-> "authorized"],
     [user_id |-> 2, amount |-> -5, status |-> PAYMENT_STATUS_CAPTURED]}

VARIABLES
    users,      \* table users: id -> [present, referrer_id, is_active]
    purchases,  \* table purchases: id -> [present, user_id, amount, status]
    rewards,    \* table rewards (committed rows), a bag of rows
    balances,   \* table balances (committed rows): user_id -> balance
    tx,         \* per call: position in process_purchase and its transaction
    calc        \* one evaluation of percent_of: its arguments and its result

vars == <<users, purchases, rewards, balances, tx, calc>>

-----------------------------------------------------------------------------
(* Tables as the program can find them.                                    *)

UserRow == [present : {TRUE}, referrer_id : Users \cup {None}, is_active : BOOLEAN]
NoUserRow == [present |-> FALSE, referrer_id |-> None, is_active |-> FALSE]

PurchaseRow == [present : {TRUE}, user_id : Users, amount : Amounts, status : Statuses]
NoPurchaseRow == [present |-> FALSE, user_id |-> None, amount |-> 0, status |-> "voided"]

\* The users tables a behaviour starts from: every shape of the referral
\* chain above user 1 (no referrer, itself, user 2; above user 2 as its
\* referrer: none, user 1, user 3; user 2 is referred by user 3 when it is
\* not in the chain of user 1), with at most one user inactive or without a
\* row, and that user one a lookup can meet: a buyer without row or a user
\* named as referrer.
UserTables ==
    {t \in [Users -> UserRow \cup {NoUserRow}] :
        /\ t[1].referrer_id \in {None, 1, 2}
        /\ t[2].referrer_id \in {None, 1, 3}
        /\ t[1].referrer_id # 2 => t[2].referrer_id = 3
        /\ t[3].referrer_id = None
        /\ Cardinality({u \in Users : ~t[u].present \/ ~t[u].is_active}) <= 1
        /\ \A u \in Users :
              (~t[u].present \/ ~t[u].is_active)
                  => \/ \E v \in Users : t[v].present /\ t[v].referrer_id = u
                     \/ (~t[u].present /\ u # 3)}

\* The chain 1 -> 2 -> 3 and the cycle 1 -> 2 -> 1, every user active.
BusyUserTables ==
    {t \in UserTables :
        /\ \A u \in Users : t[u].present /\ t[u].is_active
        /\ t[1].referrer_id = 2
        /\ t[2].referrer_id \in {1, 3}}

\* The purchases tables a behaviour starts from: purchase p1 of user 1, of
\* any amount when captured and of amount 1000 otherwise; p2 is an identifier
\* that does not exist until a request creates it.
PurchaseTables ==
    {t \in [PurchaseIds -> PurchaseRow \cup {NoPurchaseRow}] :
        /\ t["p1"].present /\ t["p1"].user_id = 1
        /\ t["p1"].status = PAYMENT_STATUS_CAPTURED \/ t["p1"].amount = 1000
        /\ ~t["p2"].present}

\* api.rs get_balance_handler: a missing balances row reads as 0.
Balance(u) == IF u \in DOMAIN balances THEN balances[u] ELSE 0

-----------------------------------------------------------------------------
(* Pure functions.                                                         *)

\* lib.rs percent_of: the product is taken in i128 and `/` truncates toward 0.
percent_of(amount, percent) ==
    LET prod == amount * percent
    IN  IF prod >= 0 THEN prod \div 100 ELSE -((-prod) \div 100)

\* -- percent_of over the whole of i64 ---------------------------------------
\* An i64 or i128 value is a sign and a magnitude of NLimbs base-Base digits,
\* least significant first.
Base == 1000000
NLimbs == 7
Limbs == 1..NLimbs

Wide(neg, mag) == [neg |-> neg /\ mag # [i \in Limbs |-> 0], mag |-> mag]
ToWide(n) ==
    Wide(n < 0, [i \in Limbs |-> IF i = 1 THEN (IF n < 0 THEN -n ELSE n) % Base
                                 ELSE IF i = 2 THEN (IF n < 0 THEN -n ELSE n) \div Base
                                 ELSE 0])
\* The value of a wide integer below Base * Base in magnitude.
FromWide(w) ==
    LET m == w.mag[2] * Base + w.mag[1] IN IF w.neg THEN -m ELSE m

I64_MAX == [i \in Limbs |-> <<775807, 36854, 223372, 9, 0, 0, 0>>[i]]
I128_MAX == [i \in Limbs |-> <<105727, 715884, 687303, 231731, 460469, 141183, 170>>[i]]

\* -1, 0 or 1 as magnitude a is below, equal to or above magnitude b.
RECURSIVE CmpFrom(_, _, _)
CmpFrom(a, b, i) ==
    IF i = 0 THEN 0
    ELSE IF a[i] < b[i] THEN -1
    ELSE IF a[i] > b[i] THEN 1
    ELSE CmpFrom(a, b, i - 1)
MagCmp(a, b) == CmpFrom(a, b, NLimbs)

\* Carry into digit i of mag * k, and the product (digits past NLimbs are
\* dropped: the type wraps).
RECURSIVE CarryInto(_, _, _)
CarryInto(mag, k, i) ==
    IF i = 1 THEN 0 ELSE (mag[i - 1] * k + CarryInto(mag, k, i - 1)) \div Base
MagMul(mag, k) == [i \in Limbs |-> (mag[i] * k + CarryInto(mag, k, i)) % Base]
MagMulOverflows(mag, k) == (mag[NLimbs] * k + CarryInto(mag, k, NLimbs)) \div Base # 0

\* Remainder left after the digits i..NLimbs of mag are divided by k, and the
\* quotient mag / k.
RECURSIVE RemFrom(_, _, _)
RemFrom(mag, k, i) ==
    IF i > NLimbs THEN 0 ELSE (RemFrom(mag, k, i + 1) * Base + mag[i]) % k
MagDiv(mag, k) == [i \in Limbs |-> (RemFrom(mag, k, i + 1) * Base + mag[i]) \div k]

\* mag + 1.
RECURSIVE Add1From(_, _)
Add1From(mag, i) ==
    IF i > NLimbs THEN mag
    ELSE IF mag[i] + 1 < Base THEN [mag EXCEPT ![i] = @ + 1]
    ELSE Add1From([mag EXCEPT ![i] = 0], i + 1)
MagAdd1(mag) == Add1From(mag, 1)

\* A signed type whose largest value has magnitude max holds w (its least
\* value is -max - 1).
FitsSigned(w, max) ==
    IF w.neg THEN MagCmp(w.mag, max) <= 0 \/ w.mag = MagAdd1(max)
    ELSE MagCmp(w.mag, max) <= 0

\* Mutant: the product is taken in i64.
IntermediateMaxNarrow == I64_MAX
\* amount as i128 * percent as i128: the intermediate type is i128.
IntermediateMax == I128_MAX

\* lib.rs percent_of on an i64 amount: the product in the intermediate type,
\* `/ 100` truncating toward zero, `as i64` keeping a value that fits.
percent_of_wide(amount, percent) ==
    LET pmag == IF percent < 0 THEN -percent ELSE percent
        prod == Wide(amount.neg # (percent < 0), MagMul(amount.mag, pmag))
        over == MagMulOverflows(amount.mag, pmag) \/ ~FitsSigned(prod, IntermediateMax)
        quot == Wide(prod.neg, MagDiv(prod.mag, 100))
    IN  [overflow |-> over,
         wrapped  |-> ~over /\ ~FitsSigned(quot, I64_MAX),
         val      |-> quot]

\* No evaluation of percent_of on its own is under way.
NoCalc == [pc |-> "none", amount |-> ToWide(0), percent |-> 0,
           result |-> [overflow |-> FALSE, wrapped |-> FALSE, val |-> ToWide(0)]]

\* active_referrer's first query, SELECT referrer_id FROM users WHERE id = $1
\* with fetch_one: an error when the user has no row.
select_referrer_id(user_id) ==
    IF ~users[user_id].present
    THEN [err |-> TRUE, val |-> None]
    ELSE [err |-> FALSE, val |-> users[user_id].referrer_id]

\* Mutant: the referrer's is_active flag is not tested.
select_is_active_any(rid) == users[rid].present

\* active_referrer's second query, SELECT is_active FROM users WHERE id = $1
\* with fetch_optional, and the two tests on it: the referrer has a row and
\* the row's is_active is true.
select_is_active(rid) == users[rid].present /\ users[rid].is_active

\* lib.rs active_referrer when the users table does not change between its
\* two queries.
active_referrer(user_id) ==
    LET r == select_referrer_id(user_id)
    IN  IF r.err THEN r
        ELSE IF r.val # None /\ select_is_active(r.val) THEN r
        ELSE [err |-> FALSE, val |-> None]

\* api.rs process_purchase_handler: every Err of process_purchase becomes
\* ApiError::Internal with code E_PROCESS_FAILURE; error.rs maps Internal to 500.
Respond(result) ==
    IF result = "Ok"
    THEN [status |-> 200, message |-> "purchase processed", code |-> "none"]
    ELSE [status |-> 500, message |-> "internal server error", code |-> "PROCESS_FAILURE"]

-----------------------------------------------------------------------------
(* Transactions.                                                           *)

IdleTx ==
    [pc |-> "idle", purchase_id |-> "p1", began |-> "first", overlap |-> FALSE,
     buyer_id |-> None, amount |-> 0, l1 |-> None, l2 |-> None, rid |-> None,
     lookups |-> 0,
     ins |-> {}, cred |-> {}, result |-> "none", committed |-> FALSE, dirty |-> FALSE,
     disturbed |-> FALSE,
     resp |-> [status |-> 0, message |-> "", code |-> "none"]]

\* Positions at which the call holds the purchase row lock.
LockedPcs ==
    {"locked", "active1", "resolve2", "active2",
     "insert1", "credit1", "insert2", "credit2", "commit"}
\* Positions at which the call has an open transaction.
ActivePcs == LockedPcs \cup {"begun"}


\* Mutant: a transaction that ends without commit keeps its row lock.
HoldingAfterAbort(c) ==
    \/ tx[c].pc \in LockedPcs
    \/ tx[c].pc = "done" /\ ~tx[c].committed /\ tx[c].buyer_id # None

\* The row lock is held from the SELECT ... FOR UPDATE until the transaction
\* ends, by commit or by the rollback of the dropped Transaction.
Holding(c) == tx[c].pc \in LockedPcs

\* Mutant: the purchase is read without FOR UPDATE.
RowLockFreeNoLock(p, c) == TRUE

\* SELECT ... FOR UPDATE returns only when no other transaction holds the row.
RowLockFree(p, c) ==
    \A d \in Calls \ {c} : ~(Holding(d) /\ tx[d].purchase_id = p)

RewardRow(c, beneficiary, level, amt) ==
    [purchase_id |-> tx[c].purchase_id, user_id |-> tx[c].buyer_id,
     beneficiary_user_id |-> beneficiary, level |-> level, amount |-> amt]

SameKey(r, s) ==
    /\ r.purchase_id = s.purchase_id
    /\ r.beneficiary_user_id = s.beneficiary_user_id
    /\ r.level = s.level

\* Mutant: no unique index on the key, every INSERT adds a row.
OnConflictNever(row, c) == FALSE

\* ON CONFLICT (purchase_id, beneficiary_user_id, level) DO NOTHING: the rows
\* the statement conflicts with are the committed ones and the transaction's own.
OnConflict(row, c) ==
    \E s \in BagToSet(rewards) \cup tx[c].ins : SameKey(row, s)

\* The unique index makes the INSERT wait for another open transaction that
\* has inserted the same key and not yet committed or rolled back.
InsertWaits(row, c) ==
    \E d \in Calls \ {c} : tx[d].pc \in ActivePcs /\ \E s \in tx[d].ins : SameKey(row, s)

\* The upsert takes the balances row lock, held until the transaction ends.
BalanceWaitsFor(c, u) ==
    {d \in Calls \ {c} : tx[d].pc \in ActivePcs /\ \E k \in tx[d].cred : k.user_id = u}

Level(c) == IF tx[c].pc \in {"insert1", "credit1"} THEN 1 ELSE 2
Beneficiary(c) == IF Level(c) = 1 THEN tx[c].l1 ELSE tx[c].l2
\* Mutant: the two percentages are swapped.
PercentageSwapped(level) == IF level = 1 THEN L2_PERCENTAGE ELSE L1_PERCENTAGE
Percentage(level) == IF level = 1 THEN L1_PERCENTAGE ELSE L2_PERCENTAGE

\* Mutant: the tests `amt > 0` are left out.
AfterLevelNoZeroTest(t, done) ==
    IF done < 1 /\ t.l1 # None THEN "insert1"
    ELSE IF done < 2 /\ t.l2 # None THEN "insert2"
    ELSE "commit"

\* Where process_purchase goes next once level `done` has been handled
\* (done = 0: right after the chain was resolved).
AfterLevel(t, done) ==
    IF done < 1 /\ t.l1 # None /\ percent_of(t.amount, L1_PERCENTAGE) > 0 THEN "insert1"
    ELSE IF done < 2 /\ t.l2 # None /\ percent_of(t.amount, L2_PERCENTAGE) > 0 THEN "insert2"
    ELSE "commit"

\* Mutant: authorized purchases are settled as well.
IsCapturedOrAuthorized(status) == status \in {PAYMENT_STATUS_CAPTURED, "authorized"}

\* if rec.status.as_str() != PAYMENT_STATUS_CAPTURED
IsCaptured(status) == status = PAYMENT_STATUS_CAPTURED

\* Mutant: the balance is credited whether or not the INSERT added a row.
AfterInsertAlwaysCredit(t, level, inserted) ==
    IF level = 1 THEN "credit1" ELSE "credit2"

\* Mutant: the test of insert_reward's result is inverted.
AfterInsertInverted(t, level, inserted) ==
    IF ~inserted
    THEN (IF level = 1 THEN "credit1" ELSE "credit2")
    ELSE AfterLevel(t, level)

\* if amt > 0 && insert_reward(...).await? { add_balance(...) }: where the
\* call goes after the INSERT of `level`, which inserted a row or did nothing.
AfterInsert(t, level, inserted) ==
    IF inserted
    THEN (IF level = 1 THEN "credit1" ELSE "credit2")
    ELSE AfterLevel(t, level)

\* Mutant: the statements run outside the transaction, each committed at once.
TxWritesAutocommit(t, committed) == [ins |-> t.ins, cred |-> t.cred]

\* What the transaction leaves in the store when it ends: its writes when
\* tx.commit() returned Ok, nothing when the Transaction is dropped before
\* (sqlx rolls a dropped transaction back).
TxWrites(t, committed) ==
    IF committed THEN [ins |-> t.ins, cred |-> t.cred] ELSE [ins |-> {}, cred |-> {}]

\* Sum of the deltas a set of credits adds to user u's balance.
RECURSIVE CreditTotal(_, _)
CreditTotal(cred, u) ==
    IF cred = {} THEN 0
    ELSE LET k == CHOOSE k \in cred : TRUE
         IN  (IF k.user_id = u THEN k.delta ELSE 0) + CreditTotal(cred \ {k}, u)

\* Mutant: DO UPDATE SET balance = balances.balance - EXCLUDED.balance.
CreditedDebit(bal, cred) ==
    [u \in DOMAIN bal \cup {k.user_id : k \in cred} |->
        IF u \in DOMAIN bal THEN bal[u] - CreditTotal(cred, u) ELSE CreditTotal(cred, u)]

\* Mutant: DO UPDATE SET balance = EXCLUDED.balance (overwrites the balance).
CreditedOverwrite(bal, cred) ==
    [u \in DOMAIN bal \cup {k.user_id : k \in cred} |->
        IF u \in {k.user_id : k \in cred} THEN CreditTotal(cred, u) ELSE bal[u]]

\* INSERT INTO balances ... ON CONFLICT (user_id) DO UPDATE
\*   SET balance = balances.balance + EXCLUDED.balance, for each credit.
Credited(bal, cred) ==
    [u \in DOMAIN bal \cup {k.user_id : k \in cred} |->
        (IF u \in DOMAIN bal THEN bal[u] ELSE 0) + CreditTotal(cred, u)]

\* The locals of a call that ends with an error are dropped with its future
\* (buyer_id is kept as the trace of the row lock the call had taken).
Dropped(t, result) ==
    IF result = "Ok" THEN t
    ELSE [t EXCEPT !.amount = 0, !.l1 = None, !.l2 = None, !.rid = None, !.lookups = 0]

\* Mutant: a committed settlement marks its purchase as voided.
TxPurchasesMarked(t, committed) ==
    IF committed /\ IsCaptured(purchases[t.purchase_id].status)
    THEN [purchases EXCEPT ![t.purchase_id].status = "voided"]
    ELSE purchases

\* The purchases table after the transaction ends: process_purchase has no
\* statement that writes it (SELECT ... FOR UPDATE only locks the row).
TxPurchases(t, committed) == purchases

\* The call is over with `result` and the answer `resp`; its transaction
\* ends, committed or rolled back.
Ended(c, result, resp, committed) ==
    LET w == TxWrites(tx[c], committed) IN
    /\ tx' = [tx EXCEPT ![c] = [Dropped(tx[c], result) EXCEPT
                !.pc = "done", !.result = result, !.resp = resp,
                !.ins = w.ins, !.cred = w.cred, !.committed = committed,
                !.dirty = (~committed /\ (tx[c].ins # {} \/ tx[c].cred # {}))]]
    /\ rewards' = rewards (+) SetToBag(w.ins)
    /\ balances' = Credited(balances, w.cred)
    /\ purchases' = TxPurchases(tx[c], committed)
    /\ UNCHANGED <<users, calc>>

\* The call returns `result`: the transaction ends, the handler answers.
End(c, result) == Ended(c, result, Respond(result), result = "Ok")

\* The call moves on to its next query.
Step(c, t) ==
    /\ tx' = [tx EXCEPT ![c] = t]
    /\ UNCHANGED <<users, purchases, rewards, balances, calc>>

-----------------------------------------------------------------------------
Init ==
    /\ users \in UserTables
    /\ purchases \in PurchaseTables
    /\ users \in BusyUserTables
         \/ (IsCaptured(purchases["p1"].status) /\ purchases["p1"].amount = 1000)
    /\ rewards = EmptyBag
    /\ balances = <<>>
    /\ tx = [c \in Calls |-> IdleTx]
    /\ calc = NoCalc

\* How a call starts relative to the other calls for the same purchase.
Began(c, p) ==
    LET others == {d \in Calls \ {c} : tx[d].purchase_id = p} IN
    IF \E d \in others : tx[d].pc \in ActivePcs THEN "concurrent"
    ELSE IF \E d \in others : tx[d].pc = "done" /\ tx[d].result = "Ok" THEN "after"
    ELSE IF \E d \in others : tx[d].pc = "done" THEN "retry"
    ELSE "first"

\* The first call for p is made while a call for another purchase has its
\* transaction open.
Overlaps(c, p) ==
    /\ Began(c, p) = "first"
    /\ \E d \in Calls \ {c} : tx[d].pc \in ActivePcs /\ tx[d].purchase_id # p

\* process_purchase_handler is invoked; pool.begin() opens the transaction.
\* Calls are numbered in the order they are made.
Begin(c, p) ==
    /\ tx[c].pc = "idle"
    /\ \A d \in Calls : d < c => tx[d].pc # "idle"
    /\ Step(c, [IdleTx EXCEPT !.pc = "begun", !.purchase_id = p, !.began = Began(c, p),
                              !.overlap = Overlaps(c, p)])

\* api.rs create_purchase_handler: a request with amount < 0 is refused;
\* otherwise the row is inserted, unless the id exists (23505, Conflict).
\* The INSERT is one statement in its own transaction.
CreatePurchase(p, req) ==
    /\ req.amount >= 0
    /\ ~purchases[p].present
    /\ purchases' = [purchases EXCEPT
                        ![p] = [present |-> TRUE, user_id |-> req.user_id,
                                amount |-> req.amount, status |-> req.status]]
    /\ UNCHANGED <<users, rewards, balances, tx, calc>>

\* SELECT id, user_id, amount, status FROM purchases WHERE id = $1 FOR UPDATE
\* fetch_one: no row is sqlx::Error::RowNotFound.
LockPurchase(c) ==
    LET p == tx[c].purchase_id IN
    /\ tx[c].pc = "begun"
    /\ IF ~purchases[p].present
       THEN End(c, "RowNotFound")
       ELSE /\ RowLockFree(p, c)
            /\ Step(c, [tx[c] EXCEPT !.pc = "locked",
                                     !.buyer_id = purchases[p].user_id,
                                     !.amount = purchases[p].amount])

\* status != "captured": commit the empty transaction and return Ok.
CommitNotCaptured(c) ==
    /\ tx[c].pc = "locked"
    /\ ~IsCaptured(purchases[tx[c].purchase_id].status)
    /\ End(c, "Ok")

\* Mutant: the walk goes on up the chain while a referrer is found.
AfterResolve2Walk(t, referrer) ==
    IF referrer # None
    THEN [t EXCEPT !.l2 = referrer, !.l1 = referrer, !.rid = None,
                   !.pc = "resolve2", !.lookups = @ + 1]
    ELSE [t EXCEPT !.pc = AfterLevel(t, 0), !.rid = None, !.lookups = @ + 1]

\* The call once the second active_referrer has returned `referrer`: l2 is
\* bound and the call goes on to the rewards; there is no further lookup.
\* (lookups counts the calls of active_referrer that returned.)
AfterResolve2(t, referrer) ==
    LET u == [t EXCEPT !.l2 = referrer, !.rid = None, !.lookups = @ + 1]
    IN  [u EXCEPT !.pc = AfterLevel(u, 0)]

\* let l1 = active_referrer(&mut tx, buyer_id).await?;  -- its first query.
\* With no referrer_id the function returns None without a second query
\* (and with l1 = None, l2 is None without a query).
ResolveL1(c) ==
    LET r == select_referrer_id(tx[c].buyer_id) IN
    /\ tx[c].pc = "locked"
    /\ IsCaptured(purchases[tx[c].purchase_id].status)
    /\ IF r.err THEN End(c, "RowNotFound")
       ELSE IF r.val = None
            THEN Step(c, [tx[c] EXCEPT !.pc = AfterLevel(tx[c], 0), !.lookups = @ + 1])
            ELSE Step(c, [tx[c] EXCEPT !.rid = r.val, !.pc = "active1"])

\* active_referrer(buyer_id), second query: l1 is the referrer when its row
\* exists and is active, None otherwise.
ActiveL1(c) ==
    /\ tx[c].pc = "active1"
    /\ IF select_is_active(tx[c].rid)
       THEN Step(c, [tx[c] EXCEPT !.l1 = tx[c].rid, !.rid = None,
                                  !.pc = "resolve2", !.lookups = @ + 1])
       ELSE Step(c, [tx[c] EXCEPT !.rid = None, !.pc = AfterLevel(tx[c], 0),
                                  !.lookups = @ + 1])

\* let l2 = match l1 { Some(u) => active_referrer(&mut tx, u).await?, None => None };
\* -- the first query of that active_referrer.
ResolveL2(c) ==
    LET r == select_referrer_id(tx[c].l1) IN
    /\ tx[c].pc = "resolve2"
    /\ IF r.err THEN End(c, "RowNotFound")
       ELSE IF r.val = None
            THEN Step(c, AfterResolve2(tx[c], None))
            ELSE Step(c, [tx[c] EXCEPT !.rid = r.val, !.pc = "active2"])

\* active_referrer(l1), second query.
ActiveL2(c) ==
    /\ tx[c].pc = "active2"
    /\ Step(c, AfterResolve2(tx[c], IF select_is_active(tx[c].rid) THEN tx[c].rid ELSE None))

\* insert_reward(...).await? and the test of its result (rows_affected() == 1)
InsertReward(c) ==
    LET level == Level(c)
        row == RewardRow(c, Beneficiary(c), level, percent_of(tx[c].amount, Percentage(level)))
        inserted == ~OnConflict(row, c)
    IN
    /\ tx[c].pc \in {"insert1", "insert2"}
    /\ ~InsertWaits(row, c)
    /\ Step(c, [tx[c] EXCEPT !.ins = IF inserted THEN @ \cup {row} ELSE @,
                             !.pc = AfterInsert(tx[c], level, inserted)])

\* add_balance(&mut tx, u, amt).await?
AddBalance(c) ==
    LET level == Level(c)
        u == Beneficiary(c)
        delta == percent_of(tx[c].amount, Percentage(level))
    IN
    /\ tx[c].pc \in {"credit1", "credit2"}
    /\ BalanceWaitsFor(c, u) = {}
    /\ Step(c, [tx[c] EXCEPT
                !.cred = @ \cup {[level |-> level, user_id |-> u, delta |-> delta]},
                !.pc = AfterLevel(tx[c], level)])

\* tx.commit().await?; Ok(())
Commit(c) ==
    /\ tx[c].pc = "commit"
    /\ End(c, "Ok")

\* The call is waiting for a COMMIT: tx.commit().await of lib.rs 74, or of
\* lib.rs 48 for a purchase that is not captured.
AtCommit(c) ==
    \/ tx[c].pc = "commit"
    \/ tx[c].pc = "locked" /\ ~IsCaptured(purchases[tx[c].purchase_id].status)

\* Any awaited query (or the commit) returns an sqlx error: `?` returns it and
\* the dropped transaction rolls back.  When it is tx.commit().await? that
\* returns the error, the store may have applied the COMMIT before the error
\* reached the call (the connection is lost before the answer arrives): the
\* call's writes are then committed although the call returns the error.
StoreFailure(c) ==
    /\ tx[c].pc \in ActivePcs
    /\ \E committed \in (IF AtCommit(c) THEN BOOLEAN ELSE {FALSE}) :
          Ended(c, "Database", Respond("Database"), committed)

\* The request is cancelled while its transaction is open: the handler's
\* future is dropped at an await, the Transaction with it, and sqlx queues a
\* ROLLBACK.  No answer is written.  When the future is dropped while
\* tx.commit() is pending, the COMMIT may already be on the connection, ahead
\* of the ROLLBACK: the store then commits the call's writes.
Cancel(c) ==
    /\ tx[c].pc \in ActivePcs
    /\ \E committed \in (IF AtCommit(c) THEN BOOLEAN ELSE {FALSE}) :
          Ended(c, "Cancelled", IdleTx.resp, committed)

\* Calls that wait for each other's balances row locks: PostgreSQL's deadlock
\* detector makes one waiting statement fail (error 40P01).
WaitsFor(c) ==
    IF tx[c].pc \in {"credit1", "credit2"} THEN BalanceWaitsFor(c, Beneficiary(c)) ELSE {}

RECURSIVE ReachableFrom(_, _)
ReachableFrom(S, n) ==
    IF n = 0 THEN S
    ELSE ReachableFrom(S \cup UNION {WaitsFor(d) : d \in S}, n - 1)

InDeadlock(c) == c \in ReachableFrom(WaitsFor(c), MaxCalls)

DeadlockAbort(c) ==
    /\ InDeadlock(c)
    /\ End(c, "Database")

Next ==
    \/ \E p \in PurchaseIds, req \in CreatePurchaseRequests : CreatePurchase(p, req)
    \/ \E c \in Calls, p \in PurchaseIds : Begin(c, p)
    \/ \E c \in Calls : LockPurchase(c)
    \/ \E c \in Calls : CommitNotCaptured(c)
    \/ \E c \in Calls : ResolveL1(c)
    \/ \E c \in Calls : ActiveL1(c)
    \/ \E c \in Calls : ResolveL2(c)
    \/ \E c \in Calls : ActiveL2(c)
    \/ \E c \in Calls : InsertReward(c)
    \/ \E c \in Calls : AddBalance(c)
    \/ \E c \in Calls : Commit(c)
    \/ \E c \in Calls : StoreFailure(c)
    \/ \E c \in Calls : Cancel(c)
    \/ \E c \in Calls : DeadlockAbort(c)

Spec == Init /\ [][Next]_vars

-----------------------------------------------------------------------------
(* Definitions the properties below are stated with.                       *)

Done(c) == tx[c].pc = "done"
DoneOk(c) == Done(c) /\ tx[c].result = "Ok"

\* The call is over and the store committed its transaction: tx.commit()
\* returned Ok, or the store applied the COMMIT although the request was
\* cancelled or tx.commit() returned an error.
Committed(c) == Done(c) /\ tx[c].committed

\* Purchases some call has settled: its transaction was committed.
Settled == {tx[c].purchase_id : c \in {d \in Calls : Committed(d)}}

\* The rows one Settle(p), run alone on an empty ledger, commits.
OnceGrants(p) ==
    LET pur == purchases[p]
        r1 == active_referrer(pur.user_id)
        r2 == active_referrer(r1.val)
        a1 == percent_of(pur.amount, L1_PERCENTAGE)
        a2 == percent_of(pur.amount, L2_PERCENTAGE)
        row(u, level, amt) ==
            [purchase_id |-> p, user_id |-> pur.user_id,
             beneficiary_user_id |-> u, level |-> level, amount |-> amt]
    IN  IF ~pur.present \/ ~IsCaptured(pur.status) \/ r1.err \/ r1.val = None THEN {}
        ELSE (IF a1 > 0 THEN {row(r1.val, 1, a1)} ELSE {})
             \cup (IF r2.val # None /\ a2 > 0 THEN {row(r2.val, 2, a2)} ELSE {})

\* Sum of the amounts of the rows of a bag of reward rows whose beneficiary is u.
RECURSIVE RowTotal(_, _, _)
RowTotal(rows, bag, u) ==
    IF rows = {} THEN 0
    ELSE LET r == CHOOSE r \in rows : TRUE
         IN  (IF r.beneficiary_user_id = u THEN r.amount * CopiesIn(r, bag) ELSE 0)
             + RowTotal(rows \ {r}, bag, u)

GrantTotal(bag, u) == RowTotal(BagToSet(bag), bag, u)

RewardsOf(p) == {r \in BagToSet(rewards) : r.purchase_id = p}

HasIns(c, level) == \E r \in tx[c].ins : r.level = level
HasCred(c, level) == \E k \in tx[c].cred : k.level = level

\* The call is past the `if let Some(..)` block of `level`.
PastLevel(c, level) ==
    \/ DoneOk(c)
    \/ tx[c].pc = "commit"
    \/ level = 1 /\ tx[c].pc \in {"insert2", "credit2"}

\* The buyer of p has no level-1 referrer: none named, or the named one has
\* no users row or is inactive.
NoLevel1(p) ==
    LET b == users[purchases[p].user_id] IN
    /\ b.present
    /\ \/ b.referrer_id = None
       \/ ~users[b.referrer_id].present
       \/ ~users[b.referrer_id].is_active

-----------------------------------------------------------------------------
\* C1: however many calls of Settle(p) run, in whatever interleaving, the
\* committed grants and balances are those of one Settle per settled purchase:
\* each grant exists exactly once and each level is credited exactly once.
C1_ConcurrentSettleAsOnce ==
    LET once == UNION {OnceGrants(p) : p \in Settled} IN
    /\ rewards = SetToBag(once)
    /\ \A u \in Users : Balance(u) = GrantTotal(SetToBag(once), u)

\* Two calls for the same captured purchase ran concurrently, both returned
\* Ok, and the purchase pays rewards.
C1_Witness ==
    \E c, d \in Calls :
        /\ c # d /\ DoneOk(c) /\ DoneOk(d)
        /\ tx[c].purchase_id = tx[d].purchase_id
        /\ tx[d].began = "concurrent"
        /\ OnceGrants(tx[c].purchase_id) # {}
        /\ \E u \in Users : Balance(u) > 0

\* C2: a Settle(p) that starts after an earlier Settle(p) has returned Ok
\* inserts no grant and credits no balance, so the grants and balances stay
\* those of the single settlement.
C2_SequentialSettleIdempotent ==
    \A c \in Calls :
        (tx[c].pc # "idle" /\ tx[c].began = "after") =>
            /\ tx[c].ins = {} /\ tx[c].cred = {}
            /\ DoneOk(c) => /\ RewardsOf(tx[c].purchase_id) = OnceGrants(tx[c].purchase_id)
                            /\ \A r \in RewardsOf(tx[c].purchase_id) : CopiesIn(r, rewards) = 1

\* A second Settle of a paying purchase, started after the first returned Ok,
\* has itself returned Ok.
C2_Witness ==
    \E c, d \in Calls :
        /\ c # d /\ DoneOk(c) /\ DoneOk(d)
        /\ tx[c].purchase_id = tx[d].purchase_id
        /\ tx[d].began = "after"
        /\ tx[c].cred # {}

\* C3: the committed rewards table never holds two rows with the same
\* (purchase_id, beneficiary_user_id, level).
C3_GrantUnique ==
    /\ \A r \in BagToSet(rewards) : CopiesIn(r, rewards) = 1
    /\ \A r, s \in BagToSet(rewards) : SameKey(r, s) => r = s

\* A grant is committed and a later call for its purchase has met it.
C3_Witness ==
    \E c \in Calls :
        /\ DoneOk(c) /\ tx[c].ins = {}
        /\ RewardsOf(tx[c].purchase_id) # {}

\* C4: every user's committed balance is the sum of the amounts of the
\* committed grants of which the user is the beneficiary.
C4_BalanceIsGrantSum ==
    \A u \in Users : Balance(u) = GrantTotal(rewards, u)

\* A user has been credited twice (two grants) and the balance is their sum.
C4_Witness ==
    \E u \in Users :
        /\ Cardinality({r \in BagToSet(rewards) : r.beneficiary_user_id = u}) >= 2
        /\ Balance(u) > 0

\* C5: a call credits a level exactly when it inserted that level's grant
\* itself: every credit has the call's own new row behind it, and every new
\* row is credited once the call is past the level.
C5_CreditIffNewGrant ==
    \A c \in Calls :
        /\ \A k \in tx[c].cred :
              \E r \in tx[c].ins : /\ r.level = k.level
                                   /\ r.beneficiary_user_id = k.user_id
                                   /\ r.amount = k.delta
        /\ \A level \in {1, 2} :
              PastLevel(c, level) => (HasIns(c, level) <=> HasCred(c, level))

\* One call inserted and credited both levels; another call for the same
\* purchase found the grants present and credited nothing.
C5_Witness ==
    \E c, d \in Calls :
        /\ c # d /\ DoneOk(c) /\ DoneOk(d)
        /\ tx[c].purchase_id = tx[d].purchase_id
        /\ HasCred(c, 1) /\ HasCred(c, 2)
        /\ tx[d].l1 # None /\ tx[d].cred = {}

\* C6: a call for an existing purchase whose status is not "captured" never
\* changes the rewards or the balances, and when it returns it returns Ok
\* (or the store's own error; a cancelled call returns nothing).
C6_NotCapturedNoEffect ==
    [][\A c \in Calls :
          (/\ tx'[c] # tx[c]
           /\ purchases[tx'[c].purchase_id].present
           /\ purchases[tx'[c].purchase_id].status # "captured")
          => /\ rewards' = rewards
             /\ balances' = balances
             /\ tx'[c].pc = "done" => tx'[c].result \in {"Ok", "Database", "Cancelled"}]_vars

\* A call has returned Ok for an authorized, a refunded or a voided purchase
\* of amount 1000 whose buyer has an active referrer.
C6_Witness ==
    \E c \in Calls :
        /\ DoneOk(c)
        /\ purchases[tx[c].purchase_id].present
        /\ purchases[tx[c].purchase_id].status \in {"authorized", "refunded", "voided"}
        /\ purchases[tx[c].purchase_id].amount = 1000
        /\ active_referrer(purchases[tx[c].purchase_id].user_id).val # None
        /\ rewards = EmptyBag

\* C7: when the buyer's level-1 referrer is absent or inactive, no grant of
\* either level exists for the purchase and no call for it credits anything.
C7_ChainShortCircuit ==
    \A p \in PurchaseIds :
        (purchases[p].present /\ NoLevel1(p)) =>
            /\ RewardsOf(p) = {}
            /\ \A c \in Calls :
                  (tx[c].pc # "idle" /\ tx[c].purchase_id = p) =>
                      tx[c].ins = {} /\ tx[c].cred = {} /\ tx[c].l2 = None

\* A captured purchase of amount 1000 was settled with Ok while the buyer's
\* referrer is inactive and that referrer's own referrer is active.
C7_Witness ==
    \E c \in Calls :
        LET p == tx[c].purchase_id
            rid == users[purchases[p].user_id].referrer_id
        IN  /\ DoneOk(c)
            /\ purchases[p].present /\ purchases[p].status = "captured"
            /\ purchases[p].amount = 1000
            /\ rid # None /\ users[rid].present /\ ~users[rid].is_active
            /\ users[rid].referrer_id # None
            /\ users[users[rid].referrer_id].present
            /\ users[users[rid].referrer_id].is_active

\* C8: a call for a purchase identifier that does not exist fails with a
\* not-found error whose answer differs from the answer to a store failure,
\* and writes nothing.  (A call the store itself failed, or one that was
\* cancelled, is left aside.)
C8_NotFoundDistinct ==
    \A c \in Calls :
        (/\ Done(c) /\ ~purchases[tx[c].purchase_id].present
         /\ tx[c].result \notin {"Database", "Cancelled"}) =>
            /\ tx[c].result = "RowNotFound"
            /\ tx[c].resp # Respond("Database")
            /\ tx[c].ins = {} /\ tx[c].cred = {}

\* C9 as stated: a call that fails at any data-access step, the commit
\* included, leaves the committed tables as they were; and the tables change
\* only by a call's grants and their credits together.
C9_FailedCallChangesNothing ==
    [][/\ \A c \in Calls :
            (/\ tx'[c].pc = "done" /\ tx[c].pc # "done"
             /\ tx'[c].result \in {"Database", "RowNotFound"})
            => rewards' = rewards /\ balances' = balances
       /\ (rewards' # rewards \/ balances' # balances) =>
            \E c \in Calls :
                /\ tx[c].pc = "commit" /\ tx'[c].pc = "done"
                /\ rewards' = rewards (+) SetToBag(tx[c].ins)
                /\ \A u \in Users :
                      CreditTotal(tx[c].cred, u) = GrantTotal(SetToBag(tx[c].ins), u)]_vars

\* C9 (amended): a call that fails at a step before the commit (lock, user
\* read, grant insert, credit), and any call whose transaction ends without
\* commit, leaves the committed tables as they were; a call whose commit
\* returns an error leaves them as they were or has committed all its grants
\* and their credits; and the committed tables change only in the step in
\* which a call's COMMIT takes effect, by that call's grants and their
\* credits together.
C9_AbortLeavesNoPartialState ==
    [][/\ \A c \in Calls :
            (/\ tx'[c].pc = "done" /\ tx[c].pc # "done"
             /\ \/ tx'[c].result \in {"Database", "RowNotFound"} /\ tx[c].pc # "commit"
                \/ ~tx'[c].committed)
            => rewards' = rewards /\ balances' = balances
       /\ \A c \in Calls :
            (/\ tx'[c].pc = "done" /\ tx[c].pc = "commit"
             /\ tx'[c].result = "Database")
            => \/ rewards' = rewards /\ balances' = balances
               \/ /\ rewards' = rewards (+) SetToBag(tx[c].ins)
                  /\ balances' = Credited(balances, tx[c].cred)
       /\ (rewards' # rewards \/ balances' # balances) =>
            \E c \in Calls :
                /\ tx[c].pc = "commit" /\ tx'[c].pc = "done" /\ tx'[c].committed
                /\ rewards' = rewards (+) SetToBag(tx[c].ins)
                /\ \A u \in Users :
                      /\ CreditTotal(tx[c].cred, u) = GrantTotal(SetToBag(tx[c].ins), u)
                      /\ IF u \in DOMAIN balances' THEN balances'[u] = Balance(u) + CreditTotal(tx[c].cred, u)
                         ELSE u \notin DOMAIN balances /\ CreditTotal(tx[c].cred, u) = 0]_vars

\* A call failed after it had inserted a grant or credited a balance and was
\* rolled back; another call for the purchase got an error from its commit
\* after the store had applied it: the committed tables hold the grants and
\* credits of the second call, all of them, and nothing of the first.
C9_Witness ==
    \E c, d \in Calls :
        /\ Done(c) /\ tx[c].result = "Database" /\ tx[c].dirty
        /\ c # d /\ tx[d].purchase_id = tx[c].purchase_id
        /\ Done(d) /\ tx[d].result = "Database" /\ tx[d].committed
        /\ HasIns(d, 1) /\ HasIns(d, 2)
        /\ rewards = SetToBag(tx[d].ins)
        /\ \A u \in Users : Balance(u) = CreditTotal(tx[d].cred, u)

\* C10: of the calls for one purchase at most one is past the lock step at a
\* time, and no two of them credit the same level.
C10_PurchaseLockSerializes ==
    \A c, d \in Calls :
        (c # d /\ tx[c].pc # "idle" /\ tx[d].pc # "idle"
              /\ tx[c].purchase_id = tx[d].purchase_id) =>
            /\ ~(Holding(c) /\ Holding(d))
            /\ \A level \in {1, 2} : ~(HasCred(c, level) /\ HasCred(d, level))

\* One call holds the purchase lock with a credit pending while another call
\* for the same purchase waits at the lock step.
C10_Witness ==
    \E c, d \in Calls :
        /\ c # d /\ tx[c].purchase_id = tx[d].purchase_id
        /\ Holding(c) /\ tx[c].cred # {}
        /\ tx[d].pc = "begun"

-----------------------------------------------------------------------------
\* What one Settle(p), run alone, adds to user u's balance.
OnceTotal(p, u) == GrantTotal(SetToBag(OnceGrants(p)), u)

\* Sum over a set of calls of what each has credited to user u.
RECURSIVE CallsCredit(_, _)
CallsCredit(S, u) ==
    IF S = {} THEN 0
    ELSE LET c == CHOOSE c \in S : TRUE
         IN  CreditTotal(tx[c].cred, u) + CallsCredit(S \ {c}, u)

\* C11: when calls for two different captured purchases have both returned
\* Ok, every user's balance is the sum of what the two settlements pay the
\* user, and is the sum of the credits of the calls that committed: no credit
\* is lost and none is applied twice, whatever the interleaving.
C11_SharedBeneficiarySum ==
    \A c, d \in Calls :
        (/\ DoneOk(c) /\ DoneOk(d)
         /\ tx[c].purchase_id # tx[d].purchase_id
         /\ IsCaptured(purchases[tx[c].purchase_id].status)
         /\ IsCaptured(purchases[tx[d].purchase_id].status))
        => \A u \in Users :
              /\ Balance(u) = OnceTotal(tx[c].purchase_id, u) + OnceTotal(tx[d].purchase_id, u)
              /\ Balance(u) = CallsCredit({e \in Calls : Committed(e)}, u)

\* Two calls for different purchases overlapped, both returned Ok, both
\* credited the same user, whose balance is the sum of the two credits.
C11_Witness ==
    \E c, d \in Calls : \E u \in Users :
        /\ DoneOk(c) /\ DoneOk(d)
        /\ tx[c].purchase_id # tx[d].purchase_id
        /\ tx[d].overlap
        /\ CreditTotal(tx[c].cred, u) > 0 /\ CreditTotal(tx[d].cred, u) > 0
        /\ Balance(u) = CreditTotal(tx[c].cred, u) + CreditTotal(tx[d].cred, u)

-----------------------------------------------------------------------------
\* The referrer ids the users table names for the buyer of p and for that
\* referrer (None when there is none).
Referrer1(p) == users[purchases[p].user_id].referrer_id
Referrer2(p) == IF Referrer1(p) = None THEN None ELSE users[Referrer1(p)].referrer_id

ActiveUser(u) == u # None /\ users[u].present /\ users[u].is_active

\* p is captured, its buyer has an active referrer who has an active referrer.
FullChain(p) ==
    /\ purchases[p].present /\ IsCaptured(purchases[p].status)
    /\ users[purchases[p].user_id].present
    /\ ActiveUser(Referrer1(p)) /\ ActiveUser(Referrer2(p))

GrantRow(p, beneficiary, level, amt) ==
    [purchase_id |-> p, user_id |-> purchases[p].user_id,
     beneficiary_user_id |-> beneficiary, level |-> level, amount |-> amt]

\* What the calls that settled p (their transaction committed) have credited
\* to user u.
SettleCredit(p, u) ==
    CallsCredit({e \in Calls : Committed(e) /\ tx[e].purchase_id = p}, u)

\* The two rewards of a fully referred purchase, as the sum they pay user u.
ChainPay(p, a1, a2, u) ==
    (IF u = Referrer1(p) THEN a1 ELSE 0) + (IF u = Referrer2(p) THEN a2 ELSE 0)

\* C12 as stated: once a fully referred captured purchase of amount A is
\* settled, a level-1 grant of A*10/100 to R1 and a level-2 grant of A*5/100
\* to R2 exist exactly once each, whatever A is, and the balances rose by
\* those amounts.
C12_GrantsForEveryAmount ==
    \A c \in Calls :
        LET p  == tx[c].purchase_id
            a1 == (purchases[p].amount * 10) \div 100
            a2 == (purchases[p].amount * 5) \div 100
        IN  (DoneOk(c) /\ FullChain(p)) =>
                /\ CopiesIn(GrantRow(p, Referrer1(p), 1, a1), rewards) = 1
                /\ CopiesIn(GrantRow(p, Referrer2(p), 2, a2), rewards) = 1
                /\ RewardsOf(p) = {GrantRow(p, Referrer1(p), 1, a1),
                                   GrantRow(p, Referrer2(p), 2, a2)}

\* C12 (amended): once a fully referred captured purchase of amount A is
\* settled, each level whose reward A*10/100 (level 1, to R1) or A*5/100
\* (level 2, to R2) is positive has exactly one grant of that amount recording
\* the buyer, a level whose reward is 0 has none, there is no other grant for
\* the purchase, and the settlement raised the balances by exactly those
\* amounts: 100 and 50 for A = 1000.
C12_TwoLevelGrants ==
    \A c \in Calls :
        LET p  == tx[c].purchase_id
            a1 == (purchases[p].amount * 10) \div 100
            a2 == (purchases[p].amount * 5) \div 100
            g1 == GrantRow(p, Referrer1(p), 1, a1)
            g2 == GrantRow(p, Referrer2(p), 2, a2)
        IN  (DoneOk(c) /\ FullChain(p)) =>
                /\ CopiesIn(g1, rewards) = (IF a1 > 0 THEN 1 ELSE 0)
                /\ CopiesIn(g2, rewards) = (IF a2 > 0 THEN 1 ELSE 0)
                /\ RewardsOf(p) = {g \in {g1, g2} : g.amount > 0}
                /\ \A u \in Users : SettleCredit(p, u) = ChainPay(p, a1, a2, u)
                /\ ~purchases["p2"].present =>
                      \A u \in Users : Balance(u) = ChainPay(p, a1, a2, u)
                /\ purchases[p].amount = 1000 => a1 = 100 /\ a2 = 50

\* A captured purchase of amount 1000 with buyer 1, referrer 2 and second
\* referrer 3, all active, was settled: grants of 100 and 50, balances 100
\* and 50.
C12_Witness ==
    \E c \in Calls :
        LET p == tx[c].purchase_id IN
        /\ DoneOk(c) /\ FullChain(p) /\ ~purchases["p2"].present
        /\ purchases[p].amount = 1000
        /\ Referrer1(p) = 2 /\ Referrer2(p) = 3
        /\ CopiesIn(GrantRow(p, 2, 1, 100), rewards) = 1
        /\ CopiesIn(GrantRow(p, 3, 2, 50), rewards) = 1
        /\ Balance(2) = 100 /\ Balance(3) = 50

-----------------------------------------------------------------------------
\* The reward of `level` for purchase p.
RewardOf(p, level) ==
    (purchases[p].amount * (IF level = 1 THEN 10 ELSE 5)) \div 100

\* C13: every grant, committed or pending, and every credit has a strictly
\* positive amount; a level whose reward is 0 has no grant and no credit; and
\* when level 1 of a fully referred purchase pays and level 2 does not, the
\* settled purchase has its level-1 grant, credited once, and nothing else.
C13_NoZeroGrant ==
    /\ \A r \in BagToSet(rewards) : r.amount > 0
    /\ \A c \in Calls :
          /\ \A r \in tx[c].ins : r.amount > 0
          /\ \A k \in tx[c].cred : k.delta > 0
          /\ \A level \in {1, 2} :
                (tx[c].pc # "idle" /\ RewardOf(tx[c].purchase_id, level) = 0) =>
                    /\ ~HasIns(c, level) /\ ~HasCred(c, level)
                    /\ \A r \in RewardsOf(tx[c].purchase_id) : r.level # level
    /\ \A c \in Calls :
          LET p == tx[c].purchase_id IN
          (DoneOk(c) /\ FullChain(p) /\ RewardOf(p, 1) > 0 /\ RewardOf(p, 2) = 0) =>
              /\ RewardsOf(p) = {GrantRow(p, Referrer1(p), 1, RewardOf(p, 1))}
              /\ CopiesIn(GrantRow(p, Referrer1(p), 1, RewardOf(p, 1)), rewards) = 1
              /\ \A u \in Users :
                    SettleCredit(p, u) = (IF u = Referrer1(p) THEN RewardOf(p, 1) ELSE 0)

\* A fully referred captured purchase of amount 19 was settled by a call that
\* resolved both referrers: it granted and credited level 1 (amount 1) and
\* left level 2 (amount 0) without grant or credit.
C13_Witness ==
    \E c \in Calls :
        LET p == tx[c].purchase_id IN
        /\ DoneOk(c) /\ FullChain(p) /\ purchases[p].amount = 19
        /\ tx[c].l1 # None /\ tx[c].l2 # None
        /\ tx[c].ins = {GrantRow(p, Referrer1(p), 1, 1)}
        /\ HasCred(c, 1) /\ ~HasCred(c, 2)
        /\ RewardsOf(p) = {GrantRow(p, Referrer1(p), 1, 1)}
        /\ Balance(Referrer1(p)) = 1

-----------------------------------------------------------------------------
\* Call c is a retry that succeeded: it was made after every earlier call for
\* its purchase had ended, none of them with Ok and one of them failed by the
\* store, and c returned Ok.
RetrySucceeded(c) ==
    /\ DoneOk(c) /\ tx[c].began = "retry"
    /\ \E d \in Calls \ {c} :
          /\ Done(d) /\ tx[d].result = "Database"
          /\ tx[d].purchase_id = tx[c].purchase_id

\* C15: once a retry of a Settle that the store had failed has returned Ok,
\* the purchase has exactly the grants of one successful Settle, each once,
\* and the calls for the purchase raised every balance by exactly what one
\* successful Settle pays.
C15_RetryAfterStoreFailure ==
    \A c \in Calls :
        LET p == tx[c].purchase_id IN
        RetrySucceeded(c) =>
            /\ RewardsOf(p) = OnceGrants(p)
            /\ \A r \in RewardsOf(p) : CopiesIn(r, rewards) = 1
            /\ \A u \in Users : SettleCredit(p, u) = OnceTotal(p, u)
            /\ ~purchases["p2"].present => \A u \in Users : Balance(u) = OnceTotal(p, u)

\* A Settle that had already inserted a grant was failed by the store and
\* rolled back; the retry returned Ok and granted and credited both levels.
C15_Witness ==
    \E c, d \in Calls :
        /\ RetrySucceeded(c)
        /\ Done(d) /\ tx[d].result = "Database" /\ tx[d].dirty
        /\ tx[d].purchase_id = tx[c].purchase_id
        /\ HasCred(c, 1) /\ HasCred(c, 2)
        /\ RewardsOf(tx[c].purchase_id) = tx[c].ins

-----------------------------------------------------------------------------
\* A grant with the key (purchase, beneficiary, level) is visible to call c:
\* committed, or inserted by c itself.
KeyGranted(c, p, beneficiary, level) ==
    \E r \in BagToSet(rewards) \cup tx[c].ins :
        /\ r.purchase_id = p /\ r.beneficiary_user_id = beneficiary /\ r.level = level

\* C16: when a call's INSERT of a grant returns, it returned true (the call
\* goes on to credit) exactly when it added a new row, which is exactly when
\* the key had no grant; on a key that has a grant it adds nothing, does not
\* fail and leaves the rewards table as it is; and no step ever removes or
\* changes a committed grant.
C16_GrantIfAbsent ==
    [][/\ \A c \in Calls :
            LET level == IF tx[c].pc = "insert1" THEN 1 ELSE 2
                u == IF level = 1 THEN tx[c].l1 ELSE tx[c].l2
                had == KeyGranted(c, tx[c].purchase_id, u, level)
                returnedTrue == tx'[c].pc = (IF level = 1 THEN "credit1" ELSE "credit2")
                added == tx'[c].ins \ tx[c].ins
            IN  (tx[c].pc \in {"insert1", "insert2"} /\ tx'[c].pc \notin {tx[c].pc, "done"})
                => /\ returnedTrue <=> ~had
                   /\ returnedTrue <=> added # {}
                   /\ tx[c].ins \subseteq tx'[c].ins
                   /\ \A r \in added :
                         /\ r.purchase_id = tx[c].purchase_id /\ r.level = level
                         /\ r.beneficiary_user_id = u
                         /\ r.user_id = purchases[tx[c].purchase_id].user_id
                         /\ r.amount = RewardOf(tx[c].purchase_id, level)
                   /\ Cardinality(added) <= 1
                   /\ rewards' = rewards
       /\ \A r \in BagToSet(rewards) : CopiesIn(r, rewards') >= CopiesIn(r, rewards)]_vars

\* A call found the level-1 grant of its purchase already committed by an
\* earlier call, whose own INSERT had returned true: its INSERT returned
\* false, it added nothing and went on to level 2.
C16_Witness ==
    \E c, d \in Calls :
        /\ c # d /\ DoneOk(d) /\ tx[d].purchase_id = tx[c].purchase_id
        /\ HasIns(d, 1) /\ HasCred(d, 1)
        /\ tx[c].pc = "insert2" /\ tx[c].ins = {} /\ tx[c].cred = {}
        /\ \A r \in tx[d].ins : CopiesIn(r, rewards) = 1

-----------------------------------------------------------------------------
\* p is captured and its buyer's referrer is active, but that referrer names
\* no referrer, or one that has no users row or is inactive.
Level1Only(p) ==
    /\ purchases[p].present /\ IsCaptured(purchases[p].status)
    /\ users[purchases[p].user_id].present
    /\ ActiveUser(Referrer1(p)) /\ ~ActiveUser(Referrer2(p))

\* C17: for a captured purchase whose level-1 referrer is active and has no
\* active level-2 referrer, no call resolves a level-2 beneficiary or writes
\* a level-2 grant or credit, and once the purchase is settled its only grant
\* is the level-1 grant (when that reward is positive), credited once.
C17_LevelOneOnly ==
    \A c \in Calls :
        LET p == tx[c].purchase_id IN
        (tx[c].pc # "idle" /\ Level1Only(p)) =>
            /\ tx[c].l2 = None /\ ~HasIns(c, 2) /\ ~HasCred(c, 2)
            /\ \A r \in RewardsOf(p) : r.level = 1
            /\ DoneOk(c) =>
                  /\ tx[c].l1 = Referrer1(p)
                  /\ RewardsOf(p) = {g \in {GrantRow(p, Referrer1(p), 1, RewardOf(p, 1))} :
                                        g.amount > 0}
                  /\ \A r \in RewardsOf(p) : CopiesIn(r, rewards) = 1
                  /\ \A u \in Users :
                        SettleCredit(p, u) = (IF u = Referrer1(p) THEN RewardOf(p, 1) ELSE 0)

\* A captured purchase of amount 1000 whose level-1 referrer is active and
\* names an inactive referrer was settled: one level-1 grant of 100,
\* credited, and nothing for level 2.
C17_Witness ==
    \E c \in Calls :
        LET p == tx[c].purchase_id IN
        /\ DoneOk(c) /\ Level1Only(p) /\ purchases[p].amount = 1000
        /\ Referrer2(p) # None /\ users[Referrer2(p)].present
        /\ ~users[Referrer2(p)].is_active
        /\ RewardsOf(p) = {GrantRow(p, Referrer1(p), 1, 100)}
        /\ Balance(Referrer1(p)) = 100

-----------------------------------------------------------------------------
\* C18: no step of any call, whatever the call's outcome, changes the
\* purchases table (status, buyer, amount) or the users table (referrer id,
\* activity flag); the purchases table changes only by the creation of a
\* purchase, which is no step of a call.
C18_ReadOnlyInputs ==
    [][(\E c \in Calls : tx'[c] # tx[c])
       => /\ \A p \in PurchaseIds :
               /\ purchases'[p].present = purchases[p].present
               /\ purchases'[p].status = purchases[p].status
               /\ purchases'[p].user_id = purchases[p].user_id
               /\ purchases'[p].amount = purchases[p].amount
          /\ \A u \in Users :
               /\ users'[u].present = users[u].present
               /\ users'[u].referrer_id = users[u].referrer_id
               /\ users'[u].is_active = users[u].is_active]_vars

\* One call has committed grants and credits for a purchase that is still
\* captured, and another call has ended with a store failure.
C18_Witness ==
    \E c, d \in Calls :
        /\ DoneOk(c) /\ tx[c].ins # {} /\ tx[c].cred # {}
        /\ purchases[tx[c].purchase_id].status = "captured"
        /\ Done(d) /\ tx[d].result = "Database"

-----------------------------------------------------------------------------
\* C19: no step lowers a balance or removes a balances row; a balances row is
\* created with a positive balance; and a step that changes balances is the
\* commit (taking effect) of a call whose credits are all strictly positive and which raises
\* each credited user's balance by the sum of its credits.
C19_BalanceMonotone ==
    [][/\ \A u \in Users :
            /\ u \in DOMAIN balances => u \in DOMAIN balances' /\ balances'[u] >= balances[u]
            /\ (u \in DOMAIN balances' /\ u \notin DOMAIN balances) => balances'[u] > 0
       /\ balances' # balances =>
            \E c \in Calls :
                /\ tx[c].pc = "commit" /\ Committed(c)'
                /\ tx[c].cred # {}
                /\ \A k \in tx[c].cred : k.delta > 0
                /\ \A u \in {k.user_id : k \in tx[c].cred} :
                      balances'[u] = Balance(u) + CreditTotal(tx[c].cred, u)
                                     /\ balances'[u] > Balance(u)]_vars

\* Two calls for different purchases committed a credit to user 3, whose
\* balance rose from nothing to the sum of the two.
C19_Witness ==
    \E c, d \in Calls :
        /\ c # d /\ DoneOk(c) /\ DoneOk(d)
        /\ CreditTotal(tx[c].cred, 3) = 50 /\ CreditTotal(tx[d].cred, 3) = 100
        /\ Balance(3) = 150

-----------------------------------------------------------------------------
(* Lock release on abort and cancellation, under fair scheduling.          *)

\* One captured purchase, whose buyer has two active referrers above or has
\* no users row.
InitLive ==
    /\ users \in {t \in UserTables :
                    /\ t[2].present /\ t[2].referrer_id = 3 /\ t[2].is_active
                    /\ t[3].present /\ t[3].is_active
                    /\ ~t[1].present \/ t[1].referrer_id = 2}
    /\ purchases \in {t \in PurchaseTables :
                        t["p1"].amount = 1000 /\ IsCaptured(t["p1"].status)}
    /\ rewards = EmptyBag
    /\ balances = <<>>
    /\ tx = [c \in Calls |-> IdleTx]
    /\ calc = NoCalc

NextLive ==
    \/ \E p \in PurchaseIds, req \in CreatePurchaseRequests : CreatePurchase(p, req)
    \/ \E c \in Calls, p \in PurchaseIds : Begin(c, p)
    \/ \E c \in Calls : LockPurchase(c)
    \/ \E c \in Calls : CommitNotCaptured(c)
    \/ \E c \in Calls : ResolveL1(c)
    \/ \E c \in Calls : ActiveL1(c)
    \/ \E c \in Calls : ResolveL2(c)
    \/ \E c \in Calls : ActiveL2(c)
    \/ \E c \in Calls : InsertReward(c)
    \/ \E c \in Calls : AddBalance(c)
    \/ \E c \in Calls : Commit(c)
    \/ \E c \in Calls : StoreFailure(c)
    \/ \E c \in Calls : Cancel(c)

\* The runtime keeps polling a call whose next query can return, and the
\* store answers it; failures and cancellations are not owed.
FairLive ==
    \A c \in Calls :
        /\ WF_vars(LockPurchase(c))
        /\ WF_vars(CommitNotCaptured(c))
        /\ WF_vars(ResolveL1(c))
        /\ WF_vars(ActiveL1(c))
        /\ WF_vars(ResolveL2(c))
        /\ WF_vars(ActiveL2(c))
        /\ WF_vars(InsertReward(c))
        /\ WF_vars(AddBalance(c))
        /\ WF_vars(Commit(c))

SpecLive == InitLive /\ [][NextLive]_vars /\ FairLive

\* Call d waits for the row lock of its purchase, held by another call.
Blocked(d) ==
    /\ tx[d].pc = "begun"
    /\ \E c \in Calls \ {d} : tx[c].pc \in LockedPcs /\ tx[c].purchase_id = tx[d].purchase_id

\* Call c took the row lock and its transaction ended without commit: by an
\* error of the store, a missing users row of the buyer or of the referrer, or
\* a cancellation.
AbortedHolder(c) ==
    /\ Done(c) /\ ~tx[c].committed
    /\ tx[c].buyer_id # None

\* Call d ended by a failure or cancellation of its own.
OwnFailure(d) == Done(d) /\ tx[d].result \in {"Database", "Cancelled"}

\* C20: under fair scheduling a call that waits for the purchase row lock,
\* and a call that has not yet locked a purchase whose lock holder ended
\* without commit (failed or cancelled), eventually takes the lock (unless it
\* is itself failed or cancelled first), and a call that has the lock
\* eventually returns.
C20_LockReleasedOnAbort ==
    \A d \in Calls :
        /\ Blocked(d) ~> (tx[d].pc = "locked" \/ OwnFailure(d))
        /\ (tx[d].pc = "begun"
              /\ \E c \in Calls \ {d} :
                    AbortedHolder(c) /\ tx[c].purchase_id = tx[d].purchase_id)
             ~> (tx[d].pc = "locked" \/ OwnFailure(d))
        /\ (tx[d].pc = "locked") ~> Done(d)

\* A call that began while another held the lock of its purchase returned Ok
\* with grants and credits after the holder, which had written a grant, was
\* cancelled or failed.
C20_Witness ==
    \E c, d \in Calls :
        /\ c # d /\ AbortedHolder(c) /\ tx[c].dirty
        /\ tx[d].purchase_id = tx[c].purchase_id
        /\ tx[d].began = "concurrent"
        /\ DoneOk(d) /\ tx[d].ins # {} /\ tx[d].cred # {}

-----------------------------------------------------------------------------
(* percent_of on its own, over the range of i64.                           *)

\* Magnitudes across the range: small ones, the ends of i64, the largest
\* amount whose product with 10 still fits i64 and its neighbours.
SampleMags ==
    {[i \in Limbs |-> IF i = 1 THEN d ELSE 0] :
        d \in {0, 1, 9, 10, 19, 20, 99, 100, 101, 199, 999, 1000, 999999}}
    \cup {[i \in Limbs |-> <<l1, l2, l3, l4, 0, 0, 0>>[i]] :
            l1 \in {0, 7, 477580, 477581, 775807, 775808},
            l2 \in {1, 36854, 203685},
            l3 \in {0, 223372, 922337},
            l4 \in {0, 9}}

\* The values of i64.
InI64(w) == FitsSigned(w, I64_MAX)
SampleAmounts == {w \in {Wide(neg, m) : neg \in BOOLEAN, m \in SampleMags} : InI64(w)}
Percents == {L2_PERCENTAGE, L1_PERCENTAGE}

InitPercent ==
    /\ users = [u \in Users |-> NoUserRow]
    /\ purchases = [p \in PurchaseIds |-> NoPurchaseRow]
    /\ rewards = EmptyBag
    /\ balances = <<>>
    /\ tx = [c \in Calls |-> IdleTx]
    /\ \E a \in SampleAmounts, p \in Percents :
          calc = [NoCalc EXCEPT !.pc = "called", !.amount = a, !.percent = p]

\* percent_of(amount, percent) returns.
ApplyPercentOf ==
    /\ calc.pc = "called"
    /\ calc' = [calc EXCEPT !.pc = "returned",
                            !.result = percent_of_wide(calc.amount, calc.percent)]
    /\ UNCHANGED <<users, purchases, rewards, balances, tx>>

SpecPercent == InitPercent /\ [][ApplyPercentOf]_vars

\* a - b for magnitudes a >= b.
RECURSIVE BorrowInto(_, _, _)
BorrowInto(a, b, i) ==
    IF i = 1 THEN 0
    ELSE IF a[i - 1] - b[i - 1] - BorrowInto(a, b, i - 1) < 0 THEN 1 ELSE 0
MagSub(a, b) == [i \in Limbs |-> (a[i] - b[i] - BorrowInto(a, b, i) + Base) % Base]

SmallMag(m) == \A i \in Limbs : i > 1 => m[i] = 0

\* x - y when it lies within -Base..Base, otherwise 2 * Base or -2 * Base.
WideDiff(x, y) ==
    IF x.neg = y.neg
    THEN LET up == MagCmp(x.mag, y.mag) >= 0
             d  == IF up THEN MagSub(x.mag, y.mag) ELSE MagSub(y.mag, x.mag)
             pos == (up /\ ~x.neg) \/ (~up /\ x.neg)
         IN  IF SmallMag(d) THEN (IF pos THEN d[1] ELSE -d[1])
             ELSE (IF pos THEN 2 * Base ELSE -2 * Base)
    ELSE IF SmallMag(x.mag) /\ SmallMag(y.mag)
         THEN (IF x.neg THEN -(x.mag[1] + y.mag[1]) ELSE x.mag[1] + y.mag[1])
         ELSE (IF x.neg THEN -2 * Base ELSE 2 * Base)

\* amount * percent - 100 * r, for 0 < percent <= 100 (both products exact:
\* they stay far below Base^NLimbs).
Excess(amount, percent, r) ==
    WideDiff(Wide(amount.neg, MagMul(amount.mag, percent)), Wide(r.neg, MagMul(r.mag, 100)))

\* r = floor(amount * percent / 100).
IsFloor(amount, percent, r) == Excess(amount, percent, r) \in 0..99
\* r = amount * percent / 100 rounded toward zero.
IsTruncated(amount, percent, r) ==
    IF amount.neg THEN Excess(amount, percent, r) \in -99..0
    ELSE Excess(amount, percent, r) \in 0..99

\* The three worked values: percent_of(1000,10)=100, (999,10)=99, (0,10)=0.
WorkedValues ==
    \A n \in {0, 999, 1000} :
        (calc.amount = ToWide(n) /\ calc.percent = 10) =>
            calc.result.val = ToWide(IF n = 0 THEN 0 ELSE IF n = 999 THEN 99 ELSE 100)

\* C14 as stated: for every i64 amount and percent 5 or 10 the result is
\* floor(amount * percent / 100), the product does not overflow, and the
\* three worked values hold.
C14_FloorOnAllOfI64 ==
    calc.pc = "returned" =>
        /\ ~calc.result.overflow /\ ~calc.result.wrapped
        /\ IsFloor(calc.amount, calc.percent, calc.result.val)
        /\ WorkedValues

\* C14 (amended): for every i64 amount and percent 5 or 10 the product does
\* not overflow the intermediate type and the quotient is an i64; for
\* amount >= 0 the result is floor(amount * percent / 100); for amount < 0
\* it is that quotient rounded toward zero; the three worked values hold; and
\* on amounts below Base the result is the one the settlement model uses.
C14_PercentOf ==
    calc.pc = "returned" =>
        /\ ~calc.result.overflow /\ ~calc.result.wrapped
        /\ InI64(calc.result.val)
        /\ IsTruncated(calc.amount, calc.percent, calc.result.val)
        /\ ~calc.amount.neg => IsFloor(calc.amount, calc.percent, calc.result.val)
        /\ WorkedValues
        /\ SmallMag(calc.amount.mag) =>
              /\ FromWide(calc.result.val) = percent_of(FromWide(calc.amount), calc.percent)
              /\ ~calc.amount.neg =>
                    FromWide(calc.result.val) = (FromWide(calc.amount) * calc.percent) \div 100

\* percent_of(i64::MAX, 10) has returned 922337203685477580 without overflow.
C14_Witness ==
    /\ calc.pc = "returned"
    /\ calc.amount = Wide(FALSE, I64_MAX) /\ calc.percent = 10
    /\ ~calc.result.overflow /\ ~calc.result.wrapped
    /\ calc.result.val = Wide(FALSE, [i \in Limbs |-> <<477580, 203685, 922337, 0, 0, 0, 0>>[i]])

-----------------------------------------------------------------------------
\* How far a call is through process_purchase.
Rank(pc) ==
    CASE pc = "idle" -> 0 [] pc = "begun" -> 1 [] pc = "locked" -> 2
      [] pc = "active1" -> 3 [] pc = "resolve2" -> 4 [] pc = "active2" -> 5
      [] pc = "insert1" -> 6 [] pc = "credit1" -> 7
      [] pc = "insert2" -> 8 [] pc = "credit2" -> 9 [] pc = "commit" -> 10
      [] pc = "done" -> 11

\* C21: on every referrer graph of the model, self-referral and two-user
\* cycle included, a call makes at most two referrer lookups, every step of a
\* call takes it strictly further through process_purchase (so it makes at
\* most eleven steps and cannot loop), and it inserts at most two grants, at
\* most one for level 1 and one for level 2.  (The count of lookups of a call
\* that ends with an error is dropped with its locals.)
C21_TwoLevelsBounded ==
    [][\A c \in Calls :
          /\ \/ tx'[c].lookups \in {tx[c].lookups, tx[c].lookups + 1}
             \/ tx'[c].pc = "done" /\ tx'[c].result # "Ok" /\ tx'[c].lookups = 0
          /\ tx'[c].lookups <= 2
          /\ tx'[c] # tx[c] => Rank(tx'[c].pc) > Rank(tx[c].pc)
          /\ Cardinality(tx'[c].ins) <= 2
          /\ \A r, q \in tx'[c].ins : r.level \in {1, 2} /\ (r.level = q.level => r = q)
          /\ tx'[c] # tx[c] =>
                \A r \in BagToSet(rewards') :
                    CopiesIn(r, rewards') # CopiesIn(r, rewards) => r \in tx[c].ins]_vars

\* A purchase whose buyer 1 is referred by user 2, who is referred by user 1,
\* was settled with two lookups and two grants: level 1 to user 2 and level 2
\* to the buyer.
C21_Witness ==
    \E c \in Calls :
        LET p == tx[c].purchase_id IN
        /\ DoneOk(c) /\ FullChain(p)
        /\ purchases[p].user_id = 1 /\ Referrer1(p) = 2 /\ Referrer2(p) = 1
        /\ tx[c].lookups = 2
        /\ tx[c].ins = {GrantRow(p, 2, 1, RewardOf(p, 1)), GrantRow(p, 1, 2, RewardOf(p, 2))}
        /\ Cardinality(tx[c].ins) = 2

-----------------------------------------------------------------------------
\* C22: calls for different captured purchases never deadlock: in no
\* reachable state does a call wait, directly or through other calls, for a
\* lock held by a call that waits for it.
C22_NeverDeadlock ==
    \A c \in Calls :
        (/\ purchases[tx[c].purchase_id].present
         /\ IsCaptured(purchases[tx[c].purchase_id].status))
        => ~InDeadlock(c)

-----------------------------------------------------------------------------
(* Settlement while the users table is changed from outside.               *)

\* The calls that have their transaction open when the users table is
\* written from outside are marked.
Disturbed ==
    [c \in Calls |-> IF tx[c].pc \in ActivePcs THEN [tx[c] EXCEPT !.disturbed = TRUE]
                                                ELSE tx[c]]

\* Another writer of the store sets a user's referrer_id; the queries of
\* active_referrer take no lock on the row, so it can do so at any moment.
ExternalSetReferrer(u, r) ==
    /\ users[u].present /\ users[u].referrer_id # r
    /\ users' = [users EXCEPT ![u].referrer_id = r]
    /\ tx' = Disturbed
    /\ UNCHANGED <<purchases, rewards, balances, calc>>

\* Another writer of the store sets a user's is_active.
ExternalSetActive(u, b) ==
    /\ users[u].present /\ users[u].is_active # b
    /\ users' = [users EXCEPT ![u].is_active = b]
    /\ tx' = Disturbed
    /\ UNCHANGED <<purchases, rewards, balances, calc>>

\* One captured purchase of amount 1000 by user 1; the chain 1 -> 2 -> 3,
\* everyone active.
InitEnv ==
    /\ users \in {t \in BusyUserTables : t[2].referrer_id = 3}
    /\ purchases \in {t \in PurchaseTables :
                        t["p1"].amount = 1000 /\ IsCaptured(t["p1"].status)}
    /\ rewards = EmptyBag
    /\ balances = <<>>
    /\ tx = [c \in Calls |-> IdleTx]
    /\ calc = NoCalc

NextEnv ==
    \/ \E p \in PurchaseIds, req \in CreatePurchaseRequests : CreatePurchase(p, req)
    \/ \E c \in Calls, p \in PurchaseIds : Begin(c, p)
    \/ \E c \in Calls : LockPurchase(c)
    \/ \E c \in Calls : CommitNotCaptured(c)
    \/ \E c \in Calls : ResolveL1(c)
    \/ \E c \in Calls : ActiveL1(c)
    \/ \E c \in Calls : ResolveL2(c)
    \/ \E c \in Calls : ActiveL2(c)
    \/ \E c \in Calls : InsertReward(c)
    \/ \E c \in Calls : AddBalance(c)
    \/ \E c \in Calls : Commit(c)
    \/ \E c \in Calls : StoreFailure(c)
    \/ \E c \in Calls : Cancel(c)
    \/ \E u \in {1, 2}, r \in {None, 2, 3} : ExternalSetReferrer(u, r)
    \/ \E u \in {2, 3}, b \in BOOLEAN : ExternalSetActive(u, b)

SpecEnv == InitEnv /\ [][NextEnv]_vars

\* C23: whatever the calls and the changes of referrer ids and activity
\* flags between them (no call had its transaction open when the users table
\* was written), the rewards table holds at most one level-1 row and at most
\* one level-2 row for a purchase.
C23_OncePerLevel ==
    (\A c \in Calls : ~tx[c].disturbed)
    => \A p \in PurchaseIds : \A level \in {1, 2} :
          \A r, q \in RewardsOf(p) :
              (r.level = level /\ q.level = level) => (r = q /\ CopiesIn(r, rewards) = 1)

====
